---- MODULE Spec2Model ----
(***************************************************************************)
(* File lifecycle of OutOfSight: the /file endpoints (post_file,           *)
(* get_file_info, get_all_files_info, download_file, delete_file), the     *)
(* status ledger                                                           *)
(* (FilesModel.add_status, FilesModel.last_status) and the object-store    *)
(* handler (S3Handler.upload_to_s3, handle_file_upload, delete_from_s3).   *)
(*                                                                         *)
(* Every request is a process; it takes one step per await of its          *)
(* handler that touches the database or the object store, so that the      *)
(* states another request can observe are states of the model.             *)
(* A request occupies a slot from its arrival until its response is sent;  *)
(* MaxProcs requests are served at a time and MaxRequests in a run.        *)
(* Sizes are counted in MiB.  Strings that the code splits on "/" are      *)
(* sequences of their "/"-separated segments.  Python's None is the empty  *)
(* sequence.                                                               *)
(*                                                                         *)
(* Further specifications share the module: the FileProcessor of          *)
(* core/files.py run on small uploads (SpecProcessor), its archive codec   *)
(* on one upload or one archive made elsewhere (SpecArchive), the users,   *)
(* roles and tokens of core/auth.py, endpoints/users.py and                *)
(* endpoints/roles.py (SpecAuth), the pure functions last_status and       *)
(* extract_s3_key on bounded inputs (SpecCalls), and uploads under weak    *)
(* fairness of every request's next step (SpecUploadFair).                 *)
(***************************************************************************)
EXTENDS Integers, Sequences, FiniteSets, TLC

\* ---------------------------------------------------------------- bounds
MaxProcs == 2
MaxRequests == 3

Procs == 1..MaxProcs
Users == {"u1", "u2"}
Sizes == {0, 8, 20, 101}

\* ------------------------------------------------------ program constants
CHUNK_SIZE_BYTES == 8
MAX_FILE_SIZE == 100
S3_BUCKET_NAME == "bucket"
FILENAME == "file.bin"

\* the sizes at the limit of post_file
LimitSizes == {MAX_FILE_SIZE, MAX_FILE_SIZE + 1}

RECEIVED == "received"
UPLOADING == "uploading"
UPLOADED == "uploaded"
PROCESSED == "processed"
FAILED == "failed"
DELETED == "deleted"

\* the names of the members of the FileStatus enum
FileStatus == {RECEIVED, UPLOADING, UPLOADED, PROCESSED, FAILED, DELETED}

None == <<>>

VARIABLES files, history, objects, req, started

\* the archive codec of FileProcessor: the archive at zip_file, the files on
\* disk, and the processor with its step
VARIABLES zip_file, tree, codec

lifecycle_vars == <<files, history, objects, req, started>>

codec_vars == <<zip_file, tree, codec>>

\* the users table, the number of user ids generated, the tokens issued,
\* the blocklist of token ids, the time in seconds, the signup requests in
\* flight, the answer of the last request that presented a token, the
\* number of requests served and the authority of each row of table roles
VARIABLES users, uuids, tokens, blocklist, clock, signup, answer, served,
          roles

auth_vars ==
    <<users, uuids, tokens, blocklist, clock, signup, answer, served, roles>>

\* a call of a pure function of the program: the function with its
\* arguments, and what the call returned
VARIABLES args, result

call_vars == <<args, result>>

vars == <<files, history, objects, req, started, zip_file, tree, codec,
          users, uuids, tokens, blocklist, clock, signup, answer, served,
          roles, args, result>>

\* ------------------------------------------- users and tokens: constants
MIN_ROLE == 0
MAX_ROLE == 99

\* the lifetimes of tokens and of blocklist entries, scaled to seconds
ACCESS_TOKEN_EXPIRE_MINUTES == 2
CONFIRMATION_TOKEN_EXPIRE_MINUTES == 1

MaxClock == 3
MaxTokens == 2
MaxAuthRequests == 3

\* the ids uuid4 gives to new users, in order, and a well-formed id that no
\* user ever has
UuidSeq == <<"uuid-1", "uuid-2", "uuid-3">>

NO_USER_UUID == "uuid-9"

ADMIN_DEFAULT_EMAIL == "admin@x"

Emails == {ADMIN_DEFAULT_EMAIL, "a@x"}

\* the subjects of tokens: empty, not a UUID, ids of users, an id of no user
Subjects == {"", "abcdef", "uuid-1", "uuid-2", NO_USER_UUID}

\* the authority of the role of the seeded user
Authorities == {10, 90, MAX_ROLE}

NoToken == [jti |-> 0, sub |-> "", type |-> "", exp |-> 0]

NoResponse == [n |-> 0, op |-> "", token |-> NoToken, id |-> "", code |-> 0]

IdleSignup == [pc |-> "idle", email |-> "", resp |-> 0]

\* the rows of table roles: the two that initialize_default_values makes
\* and one that post_role can add; a row that does not exist has no
\* authority
DEFAULT_ROLE == "Default"

SUPERUSER_ROLE == "SuperUser"

NEW_ROLE == "New"

RoleIds == {DEFAULT_ROLE, SUPERUSER_ROLE, NEW_ROLE}

NoRole == 0 - 1

\* the authorities in the body of post_role and put_role: the least, and
\* one above the 90 that put_user, patch_user and delete_user_by_id ask for
RoleAuthorities == {MIN_ROLE, MAX_ROLE - 1}

\* initialize_default_values: the default roles and the seeded user
InitUsers(authority) ==
    /\ roles = [id \in RoleIds |->
                   CASE id = DEFAULT_ROLE -> MIN_ROLE
                     [] id = SUPERUSER_ROLE -> authority
                     [] OTHER -> NoRole]
    /\ users = {[id |-> UuidSeq[1], email |-> ADMIN_DEFAULT_EMAIL,
                 role |-> SUPERUSER_ROLE, confirmed |-> TRUE]}
    /\ uuids = 1
    /\ tokens = {}
    /\ blocklist = {}
    /\ clock = 0
    /\ signup = [p \in Procs |-> IdleSignup]
    /\ answer = NoResponse
    /\ served = 0

\* no call of a pure function is under way
NoArgs == [fn |-> "", h |-> <<>>, uri |-> <<>>]

NoResult == [returned |-> FALSE, value |-> <<>>]

NoCalls == args = NoArgs /\ result = NoResult

\* no archive, and no FileProcessor
NoArchive == [pwd |-> <<>>, entries |-> <<>>]

NoProcessor == [step |-> "none", origin |-> "", filename |-> <<>>,
                data |-> <<>>, key |-> <<>>]

\* ---------------------------------------------------------- pure helpers
Min(a, b) == IF a < b THEN a ELSE b

IsPrefix(s, t) == /\ Len(s) <= Len(t)
                  /\ \A i \in 1..Len(s) : s[i] = t[i]

Statuses(h) == [i \in 1..Len(h) |-> h[i].status]

\* the rows of table files_status: the catalog is seeded at startup with one
\* row per member of FileStatus and is read-only afterwards
files_status == FileStatus

\* FileStatusModel.find_by_name: the catalog row of that name, if any
find_by_name(name) == name \in files_status

\* FileStatusHistoryModel.find_by_fileid_and_statusid: the matching rows,
\* in insertion order (one_or_none is applied by the caller below)
find_by_fileid_and_statusid_none(h, s) == <<>>

find_by_fileid_and_statusid(h, s) ==
    SelectSeq(h, LAMBDA e : e.status = s)

\* FilesModel.last_status: max() over status_history keyed by created_on;
\* Python's max returns the first of several maximal elements
RECURSIVE MaxFirst(_, _, _)
MaxFirst(h, i, best) ==
    IF i > Len(h) THEN best
    ELSE MaxFirst(h, i + 1,
                  IF h[i].created_on > h[best].created_on THEN i ELSE best)

last_status(h) ==
    IF h = <<>> THEN None ELSE <<h[MaxFirst(h, 2, 1)].status>>

\* the row add_status inserts.  created_on defaults to the database's
\* now(); every insert is a transaction of its own and only the order of
\* one file's events is ever compared, so now() is the count of that
\* file's inserts
now(h) == Len(h) + 1

InsertEvent_replace(h, s) == <<[status |-> s, created_on |-> now(h)]>>

InsertEvent(h, s) == Append(h, [status |-> s, created_on |-> now(h)])

\* upload_to_s3: file_key = f"{user_id}/{filename}" with
\* filename = f"{file_obj.id}/{file_up.filename}"
FileKey_nofile(user_id, file_id) == <<user_id, FILENAME>>

FileKey(user_id, file_id) == <<user_id, ToString(file_id), FILENAME>>

\* f"s3://{bucket_name}/{file_key}", split on "/"
S3Uri(bucket, key) == <<"s3:", "", bucket>> \o key

\* S3Handler.extract_s3_key: (bucket_name, file_key, file_name); a uri
\* without the scheme has bucket None and is its own key.  With the scheme,
\* uri[5:].split("/", 1) has one part when nothing follows the bucket, and
\* parts[1] raises
INDEX_ERROR == [raised |-> "IndexError"]

extract_s3_key_nosplit(uri) ==
    [bucket |-> None, key |-> uri, name |-> uri[Len(uri)]]

extract_s3_key(uri) ==
    IF Len(uri) >= 3 /\ uri[1] = "s3:" /\ uri[2] = ""
    THEN IF Len(uri) = 3 THEN INDEX_ERROR
         ELSE [bucket |-> <<uri[3]>>, key |-> SubSeq(uri, 4, Len(uri)),
               name |-> uri[Len(uri)]]
    ELSE [bucket |-> None, key |-> uri, name |-> uri[Len(uri)]]

\* what upload_to_s3 returns: the uri after complete_multipart_upload, and
\* None (the function falls off its except blocks) after any failure
UploadToS3Result_always(ok, bucket, key) == S3Uri(bucket, key)

UploadToS3Result(ok, bucket, key) ==
    IF ok THEN S3Uri(bucket, key) ELSE None

\* file_up.read(CHUNK_SIZE_BYTES): at most one chunk of what is left
ReadChunk_all(remaining) == remaining

ReadChunk(remaining) == Min(CHUNK_SIZE_BYTES, remaining)

\* part_number += 1
NextPartNumber(n) == n + 1

\* the except block of upload_to_s3 calls abort_multipart_upload with
\* upload_id; when create_multipart_upload itself raised, upload_id is
\* unbound and the handler raises before making the call
OnUploadException_noabort(upload_id) == "fin_find"

OnUploadException(upload_id) ==
    IF upload_id = None THEN "fin_find" ELSE "s3_abort"

\* the statuses the handlers record
StatusOnSubmit == RECEIVED

StatusOnUploadStart_swapped == UPLOADED

StatusOnUploadStart == UPLOADING

StatusOnUploadEnd_unchecked(s3_key) == UPLOADED

StatusOnUploadEnd_again(s3_key) ==
    IF s3_key = None THEN UPLOADING ELSE UPLOADED

StatusOnUploadEnd(s3_key) == IF s3_key = None THEN FAILED ELSE UPLOADED

\* post_file: if file.size > MAX_FILE_SIZE: raise 413
TooLarge_atmax(size) == size >= MAX_FILE_SIZE

TooLarge(size) == size > MAX_FILE_SIZE

\* delete_file: if obj.last_status == "failed": add_status(DELETED); return
SkipsObjectStore_never(last) == FALSE

SkipsObjectStore(last) == last = <<FAILED>>

\* the detail of the HTTPException each handler raises with a status code
RECORD_NOT_FOUND == "File does not exists"
NOT_ALLOWED == "Not allowed"
NOT_IN_S3 == "File not found in S3 server. Check file status."
NOT_IN_BUCKET == "File not found in the S3 bucket."

\* ids: every table draws its ids from the one sequence user_id_seq, so a
\* users id is never a files id.  A files row is named by its position in
\* files, and the users by numbers below 1
UserId(u) == IF u = "u1" THEN 0 ELSE 0 - 1

\* ------------------------------------------------------------- requests
IdleReq == [kind |-> "none", pc |-> "idle", user |-> "", fid |-> 0,
            size |-> 0, remaining |-> 0, part_number |-> 0, parts |-> <<>>,
            upload_id |-> None, s3_key |-> None, s3_failed |-> FALSE,
            path |-> None, ret |-> None, existing |-> FALSE, resp |-> 0,
            detail |-> "", flags |-> <<>>, client |-> "none",
            temp_dir |-> "none",
            log |-> <<>>]

FindPcs == {"recv_find", "upl_find", "fin_find", "delf_find", "del_find"}
InsertPcs == {"recv_insert", "upl_insert", "fin_insert", "delf_insert",
              "del_insert"}
S3Pcs == {"s3_client", "s3_create", "s3_loop", "s3_abort"}

\* asyncio.CancelledError derives from BaseException, and both handlers of
\* upload_to_s3 are "except Exception": neither runs, the error leaves
\* handle_file_upload and post_file, and no response is sent
CANCELLED == "CancelledError"

OnCancelled(r) ==
    [IdleReq EXCEPT !.pc = "done", !.kind = r.kind, !.user = r.user,
                    !.fid = r.fid, !.detail = CANCELLED]

InsertPcOf(pc) ==
    CASE pc = "recv_find" -> "recv_insert"
      [] pc = "upl_find" -> "upl_insert"
      [] pc = "fin_find" -> "fin_insert"
      [] pc = "delf_find" -> "delf_insert"
      [] pc = "del_find" -> "del_insert"

\* the endpoint returns or raises with this status code; what is left of
\* the request is what its caller and the claims below can refer to
Done(r, code) ==
    [IdleReq EXCEPT !.pc = "done", !.kind = r.kind, !.user = r.user,
                    !.fid = r.fid, !.s3_failed = r.s3_failed,
                    !.ret = r.ret, !.existing = r.existing, !.resp = code,
                    !.detail = r.detail, !.flags = r.flags,
                    !.client = r.client, !.temp_dir = r.temp_dir]

\* an exception leaves the endpoint: the caller gets 500 (delete_from_s3
\* catches it, returns False, and delete_file raises 500 itself)
Raised(r) == Done(r, 500)

\* delete_from_s3 when delete_object raised: "except Exception" returns
\* False before add_status is reached, and delete_file answers 500
DeleteFromS3Failed_recorded(r) ==
    [r EXCEPT !.pc = "del_find", !.s3_failed = TRUE]

DeleteFromS3Failed(r) == Raised([r EXCEPT !.s3_failed = TRUE])

\* handle_file_download holds its client in "async with": however the
\* block is left (its end, an exception, the GeneratorExit or
\* CancelledError thrown into the generator) the client is closed
ExitClient_leak(client) == client

ExitClient(client) == IF client = "open" THEN "closed" ELSE client

\* the consumer of the chunks stopped before the last one
ABANDONED == "GeneratorExit"

\* the exceptions that leave handle_file_download
ATTRIBUTE_ERROR == "AttributeError"

UNBOUND_LOCAL_ERROR == "UnboundLocalError"

S3_FILE_NOT_FOUND_ERROR == "S3FileNotFoundError"

S3_DOWNLOAD_ERROR == "S3DownloadError"

\* the generator of a StreamingResponse raised: the status line (200) has
\* been sent, so the exception cannot become a response any more
StreamBroken(r, exc) ==
    Done([r EXCEPT !.s3_failed = TRUE, !.detail = exc,
                   !.client = ExitClient(r.client)], r.resp)

\* upload_to_s3 has returned: its locals are gone, handle_file_upload keeps
\* self.s3_key; log keeps the calls made until handle_file_upload goes on
Returned(r, ok, log) ==
    [r EXCEPT !.pc = "fin_find", !.remaining = 0, !.part_number = 0,
              !.parts = <<>>, !.upload_id = None, !.log = log,
              !.s3_failed = ~ok,
              !.s3_key = UploadToS3Result(ok, S3_BUCKET_NAME,
                                          FileKey(r.user, r.fid))]

\* the status a request passes to add_status at this point of its handler
StatusAt(r) ==
    CASE r.pc \in {"recv_find", "recv_insert"} -> StatusOnSubmit
      [] r.pc \in {"upl_find", "upl_insert"} -> StatusOnUploadStart
      [] r.pc \in {"fin_find", "fin_insert"} -> StatusOnUploadEnd(r.s3_key)
      [] OTHER -> DELETED

\* where the caller continues when add_status has returned
AfterAddStatus_error(r) ==
    CASE r.pc \in {"recv_find", "recv_insert"} ->
            [r EXCEPT !.pc = "upl_find"]
      [] r.pc \in {"upl_find", "upl_insert"} ->
            [r EXCEPT !.pc = "s3_client"]
      [] r.pc \in {"fin_find", "fin_insert"} ->
            IF r.s3_key = None
            THEN Done(r, 500)
            ELSE [r EXCEPT !.pc = "fin_path", !.log = <<>>, !.size = 0]
      [] OTHER -> Done(r, 200)

AfterAddStatus(r) ==
    CASE r.pc \in {"recv_find", "recv_insert"} ->
            [r EXCEPT !.pc = "upl_find"]
      [] r.pc \in {"upl_find", "upl_insert"} ->
            [r EXCEPT !.pc = "s3_client"]
      [] r.pc \in {"fin_find", "fin_insert"} ->
            IF r.s3_key = None
            THEN Done(r, 202)
            ELSE [r EXCEPT !.pc = "fin_path", !.log = <<>>, !.size = 0]
      [] OTHER -> Done(r, 200)

Init ==
    /\ files = <<>>
    /\ history = <<>>
    /\ objects = {}
    /\ req = [p \in Procs |-> IdleReq]
    /\ started = 0
    /\ NoCalls
    /\ zip_file = NoArchive
    /\ tree = {}
    /\ codec = NoProcessor
    /\ InitUsers(MAX_ROLE)

\* a request arrives in the first free slot
Arrives(p) ==
    /\ started < MaxRequests
    /\ req[p].pc = "idle"
    /\ \A q \in 1..(p - 1) : req[q].pc # "idle"
    /\ started' = started + 1
    /\ UNCHANGED <<codec_vars, auth_vars, call_vars>>

\* the ids a request can name: those of the files rows and one that has
\* no row
FileIds == 1..(Len(files) + 1)

\* the response is sent and the request's objects are gone
Respond(p) ==
    /\ req[p].pc = "done"
    /\ req' = [req EXCEPT ![p] = IdleReq]
    /\ UNCHANGED <<files, history, objects, started, codec_vars, auth_vars, call_vars>>

\* the primary key the database gives to a new files row
NewFileId_first(rows) == 1

NewFileId(rows) == Len(rows) + 1

\* post_file up to the first commit: the size check and the new files row
PostFile(p, u, size) ==
    LET r == [req[p] EXCEPT !.kind = "upload", !.user = u]
    IN /\ Arrives(p)
       /\ IF TooLarge(size)
          THEN /\ req' = [req EXCEPT ![p] =
                     [Done(r, 413) EXCEPT !.size = size]]
               /\ UNCHANGED <<files, history>>
          ELSE \/ /\ files' = Append(files, [user_id |-> u, path |-> None])
                  /\ history' = Append(history, <<>>)
                  /\ req' = [req EXCEPT ![p] =
                        [r EXCEPT !.fid = NewFileId(files), !.size = size,
                                  !.remaining = size, !.pc = "recv_find"]]
               \/ /\ req' = [req EXCEPT ![p] = Raised(r)]
                  /\ UNCHANGED <<files, history>>
       /\ UNCHANGED objects

\* FilesModel.add_status, first half: the catalog lookup and the lookup of
\* an existing (file, status) row; one_or_none raises on several rows
AddStatusFind(p) ==
    LET r == req[p]
        s == StatusAt(r)
        rows == find_by_fileid_and_statusid(history[r.fid], s)
    IN /\ r.pc \in FindPcs
       /\ req' = [req EXCEPT ![p] =
             IF ~find_by_name(s) THEN AfterAddStatus([r EXCEPT !.ret = None])
             ELSE IF Len(rows) > 1 THEN Raised(r)
             ELSE IF Len(rows) = 1
                  THEN AfterAddStatus([r EXCEPT !.ret = <<rows[1]>>,
                                                !.existing = TRUE])
             ELSE IF r.pc = "fin_find"
                  THEN [r EXCEPT !.pc = "fin_insert", !.log = <<>>,
                                 !.size = 0]
             ELSE [r EXCEPT !.pc = InsertPcOf(r.pc)]]
       /\ UNCHANGED <<files, history, objects, started, codec_vars, auth_vars, call_vars>>

\* FilesModel.add_status, second half: db.add and db.commit of the new row;
\* the commit can fail, which raises
AddStatusInsert(p) ==
    LET r == req[p]
        s == StatusAt(r)
    IN /\ r.pc \in InsertPcs
       /\ \/ /\ history' = [history EXCEPT ![r.fid] = InsertEvent(@, s)]
             /\ req' = [req EXCEPT ![p] = AfterAddStatus(
                   [r EXCEPT !.ret = <<[status |-> s,
                                        created_on |-> now(history[r.fid])]>>])]
          \/ /\ req' = [req EXCEPT ![p] = Raised(r)]
             /\ UNCHANGED history
       /\ UNCHANGED <<files, objects, started, codec_vars, auth_vars, call_vars>>

\* ---------------------------------------------------------- upload_to_s3
\* one call to the object store, as the claims about upload_to_s3 see it
Call(r, op, ok) ==
    [op |-> op, ok |-> ok, upload_id |-> r.upload_id,
     part |-> r.part_number, parts |-> r.parts]

\* async with await self.get_client(): a failure is caught by the outer
\* except, and upload_to_s3 returns None
S3GetClient(p) ==
    LET r == req[p]
    IN /\ r.pc = "s3_client"
       /\ \/ req' = [req EXCEPT ![p] = [r EXCEPT !.pc = "s3_create"]]
          \/ req' = [req EXCEPT ![p] = Returned(r, FALSE, r.log)]
       /\ UNCHANGED <<files, history, objects, started, codec_vars, auth_vars, call_vars>>

\* the except block ran: abort when there is an upload id, else return
Excepted(r, log) ==
    IF OnUploadException(r.upload_id) = "s3_abort"
    THEN [r EXCEPT !.pc = "s3_abort", !.log = log, !.s3_failed = TRUE]
    ELSE Returned(r, FALSE, log)

\* create_multipart_upload; parts = [], part_number = 1
S3CreateMultipartUpload(p) ==
    LET r == req[p]
        c == [r EXCEPT !.upload_id = <<p>>, !.parts = <<>>,
                       !.part_number = 1]
    IN /\ r.pc = "s3_create"
       /\ \/ req' = [req EXCEPT ![p] =
                [c EXCEPT !.pc = "s3_loop",
                          !.log = Append(r.log, Call(c, "create", TRUE))]]
          \/ req' = [req EXCEPT ![p] =
                Excepted(r, Append(r.log, Call(r, "create", FALSE)))]
       /\ UNCHANGED <<files, history, objects, started, codec_vars, auth_vars, call_vars>>

\* one turn of the while loop: read a chunk and upload it as the next part
S3UploadPart(p) ==
    LET r == req[p]
        chunk == ReadChunk(r.remaining)
        read == [r EXCEPT !.remaining = @ - chunk]
    IN /\ r.pc = "s3_loop"
       /\ chunk > 0
       /\ \/ req' = [req EXCEPT ![p] =
                [read EXCEPT
                    !.parts = Append(@, [PartNumber |-> r.part_number,
                                         ETag |-> <<r.upload_id[1],
                                                    r.part_number>>]),
                    !.part_number = NextPartNumber(@),
                    !.log = Append(@, Call(r, "part", TRUE))]]
          \/ req' = [req EXCEPT ![p] =
                Excepted(read, Append(r.log, Call(r, "part", FALSE)))]
       /\ UNCHANGED <<files, history, objects, started, codec_vars, auth_vars, call_vars>>

\* the loop has read an empty chunk: complete_multipart_upload
S3CompleteMultipartUpload(p) ==
    LET r == req[p]
    IN /\ r.pc = "s3_loop"
       /\ ReadChunk(r.remaining) = 0
       /\ \/ /\ req' = [req EXCEPT ![p] =
                   Returned(r, TRUE, Append(r.log, Call(r, "complete", TRUE)))]
             /\ objects' = objects \cup {FileKey(r.user, r.fid)}
          \/ /\ req' = [req EXCEPT ![p] =
                   Excepted(r, Append(r.log, Call(r, "complete", FALSE)))]
             /\ UNCHANGED objects
       /\ UNCHANGED <<files, history, started, codec_vars, auth_vars, call_vars>>

\* abort_multipart_upload in the except block; whether it succeeds or
\* raises (caught by the outer except), upload_to_s3 returns None
S3AbortMultipartUpload(p) ==
    LET r == req[p]
    IN /\ r.pc = "s3_abort"
       /\ \E ok \in BOOLEAN :
             req' = [req EXCEPT ![p] =
                Returned(r, FALSE, Append(r.log, Call(r, "abort", ok)))]
       /\ UNCHANGED <<files, history, objects, started, codec_vars, auth_vars, call_vars>>

\* the task of the request is cancelled while upload_to_s3 waits for the
\* object store (cancellation at the other awaits of post_file leaves the
\* database as a failed commit there does)
S3Cancelled(p) ==
    LET r == req[p]
    IN /\ r.pc \in S3Pcs
       /\ req' = [req EXCEPT ![p] = OnCancelled(r)]
       /\ UNCHANGED <<files, history, objects, started, codec_vars, auth_vars, call_vars>>

\* handle_file_upload, last lines: file_obj.path = self.s3_key; db.commit()
SetPath(p) ==
    LET r == req[p]
    IN /\ r.pc = "fin_path"
       /\ \/ /\ files' = [files EXCEPT ![r.fid].path = r.s3_key]
             /\ req' = [req EXCEPT ![p] = Done(r, 202)]
          \/ /\ req' = [req EXCEPT ![p] = Raised(r)]
             /\ UNCHANGED files
       /\ UNCHANGED <<history, objects, started, codec_vars, auth_vars, call_vars>>

\* ------------------------------------------------ get, download, delete
\* FilesModel.find_by_id: the files row of that id, or None
find_by_id(id) == IF id \in DOMAIN files THEN <<id>> ELSE None

\* FilesModel.find_by_id_removing_deleted_or_failed: with a flag set, the
\* files rows of that id joined with their history rows of the named
\* statuses (scalars().all(): one entry per joined row); with no flag set,
\* what find_by_id returns
StatusFilter(remove_deleted, remove_failed) ==
    (IF remove_deleted THEN {DELETED} ELSE {})
        \cup (IF remove_failed THEN {FAILED} ELSE {})

find_by_id_removing_deleted_or_failed(id, remove_deleted, remove_failed) ==
    IF remove_deleted \/ remove_failed
    THEN IF id \in DOMAIN files
         THEN [i \in 1..Len(SelectSeq(history[id], LAMBDA e :
                  e.status \in StatusFilter(remove_deleted, remove_failed)))
               |-> id]
         ELSE <<>>
    ELSE find_by_id(id)

\* check_file_and_user: whatever the two flags, the lookup is find_by_id
\* (find_by_id_removing_deleted_or_failed is only called with both False,
\* where it is find_by_id too); 404 without a row, 403 for another owner
check_file_and_user_noowner(f, u) ==
    IF find_by_id(f) = None THEN 404 ELSE 200

check_file_and_user(f, u) ==
    IF find_by_id(f) = None THEN 404
    ELSE IF files[f].user_id # u THEN 403
    ELSE 200

CheckDetail(code) ==
    CASE code = 404 -> RECORD_NOT_FOUND
      [] code = 403 -> NOT_ALLOWED
      [] OTHER -> ""

\* get_file_info and get_file_info_with_status
GetFileInfo(p, u, f, remove_failed, remove_deleted) ==
    LET code == check_file_and_user(f, u)
        r == [req[p] EXCEPT !.kind = "get", !.user = u, !.fid = f,
                            !.flags = <<remove_deleted, remove_failed>>,
                            !.detail = CheckDetail(code)]
    IN /\ Arrives(p)
       /\ req' = [req EXCEPT ![p] = Done(r, code)]
       /\ UNCHANGED <<files, history, objects>>

\* get_all_files_info: the lookup is made with the id of the user; with no
\* flag set it yields a row or None, which is not a list, so the response
\* fails validation against List[ReturnFileSchema]
GetAllFilesInfo(p, u, remove_failed, remove_deleted) ==
    LET found == find_by_id_removing_deleted_or_failed(
                     UserId(u), remove_deleted, remove_failed)
        r == [req[p] EXCEPT !.kind = "list", !.user = u, !.ret = found,
                            !.flags = <<remove_deleted, remove_failed>>]
    IN /\ Arrives(p)
       /\ req' = [req EXCEPT ![p] =
             IF remove_deleted \/ remove_failed THEN Done(r, 200)
             ELSE Raised(r)]
       /\ UNCHANGED <<files, history, objects>>

\* download_file: check_file_and_user, then a StreamingResponse over the
\* generator handle_file_download(obj.path); building it runs nothing of
\* the generator, so neither except clause of download_file can be taken
\* and the response starts with 200
DownloadFile(p, u, f) ==
    LET code == check_file_and_user(f, u)
        r == [req[p] EXCEPT !.kind = "download", !.user = u, !.fid = f,
                            !.detail = CheckDetail(code)]
    IN /\ Arrives(p)
       /\ req' = [req EXCEPT ![p] =
             IF code # 200 THEN Done(r, code)
             ELSE [r EXCEPT !.pc = "dl_stream", !.resp = 200,
                            !.path = files[f].path]]
       /\ UNCHANGED <<files, history, objects>>

\* handle_file_download, first pull of the body: extract_s3_key, before
\* the try block, calls startswith on the path and raises on None; then
\* get_client, whose client is entered with "async with".  When get_client
\* raises, the name client is unbound, and the first except clause, which
\* evaluates client.exceptions.NoSuchKey, raises in place of the handlers
DownloadStream(p) ==
    LET r == req[p]
    IN /\ r.pc = "dl_stream"
       /\ \/ /\ r.path = None
             /\ req' = [req EXCEPT ![p] = StreamBroken(r, ATTRIBUTE_ERROR)]
          \/ /\ r.path # None
             /\ \/ req' = [req EXCEPT ![p] =
                      [r EXCEPT !.pc = "dl_get", !.client = "open"]]
                \/ req' = [req EXCEPT ![p] =
                      StreamBroken(r, UNBOUND_LOCAL_ERROR)]
       /\ UNCHANGED <<files, history, objects, started, codec_vars, auth_vars, call_vars>>

\* client.get_object: NoSuchKey for a missing key becomes
\* S3FileNotFoundError and any other failure S3DownloadError, raised inside
\* the generator; else the generator yields a chunk
DownloadGetObject(p) ==
    LET r == req[p]
        key == extract_s3_key(r.path).key
    IN /\ r.pc = "dl_get"
       /\ \/ /\ key \in objects
             /\ req' = [req EXCEPT ![p] = [r EXCEPT !.pc = "dl_yield"]]
          \/ /\ key \notin objects
             /\ req' = [req EXCEPT ![p] =
                   StreamBroken(r, S3_FILE_NOT_FOUND_ERROR)]
          \/ req' = [req EXCEPT ![p] = StreamBroken(r, S3_DOWNLOAD_ERROR)]
       /\ UNCHANGED <<files, history, objects, started, codec_vars, auth_vars, call_vars>>

\* the generator is resumed at its yield: the body is exhausted and the
\* generator returns, or reading the next chunk fails
DownloadNextChunk(p) ==
    LET r == req[p]
    IN /\ r.pc = "dl_yield"
       /\ \/ req' = [req EXCEPT ![p] =
                Done([r EXCEPT !.client = ExitClient(r.client)], r.resp)]
          \/ req' = [req EXCEPT ![p] = StreamBroken(r, S3_DOWNLOAD_ERROR)]
       /\ UNCHANGED <<files, history, objects, started, codec_vars, auth_vars, call_vars>>

\* the caller disconnects: the task is cancelled inside the generator, or
\* the suspended generator is closed
DownloadAbandoned(p) ==
    LET r == req[p]
    IN /\ r.pc \in {"dl_get", "dl_yield"}
       /\ req' = [req EXCEPT ![p] =
             Done([r EXCEPT !.detail = ABANDONED,
                            !.client = ExitClient(r.client)], r.resp)]
       /\ UNCHANGED <<files, history, objects, started, codec_vars, auth_vars, call_vars>>

\* obj.path, of the record check_file_and_user returned for the id
ObjPath_first(f) == files[1].path

ObjPath(f) == files[f].path

\* delete_file up to its first await after check_file_and_user, and the
\* synchronous head of delete_from_s3 (extract_s3_key of obj.path, which
\* raises on None)
DeleteFile(p, u, f) ==
    LET code == check_file_and_user(f, u)
        r == [req[p] EXCEPT !.kind = "delete", !.user = u, !.fid = f,
                            !.detail = CheckDetail(code)]
    IN /\ Arrives(p)
       /\ req' = [req EXCEPT ![p] =
             IF code # 200 THEN Done(r, code)
             ELSE IF SkipsObjectStore(last_status(history[f]))
                  THEN [r EXCEPT !.pc = "delf_find"]
             ELSE IF ObjPath(f) = None THEN Raised(r)
             ELSE IF extract_s3_key(ObjPath(f)).bucket = None
                  THEN Raised(r)
             ELSE [r EXCEPT !.pc = "del_client", !.path = ObjPath(f)]]
       /\ UNCHANGED <<files, history, objects>>

\* delete_from_s3: get_client
DeleteGetClient(p) ==
    LET r == req[p]
    IN /\ r.pc = "del_client"
       /\ \/ req' = [req EXCEPT ![p] = [r EXCEPT !.pc = "del_object"]]
          \/ req' = [req EXCEPT ![p] = Raised(r)]
       /\ UNCHANGED <<files, history, objects, started, codec_vars, auth_vars, call_vars>>

\* _delete_s3_object: client.delete_object(Bucket, Key); the store answers
\* a delete of a key it does not hold like any other delete
DeleteS3Object(p) ==
    LET r == req[p]
        key == extract_s3_key(r.path).key
    IN /\ r.pc = "del_object"
       /\ \/ /\ objects' = objects \ {key}
             /\ req' = [req EXCEPT ![p] =
                   [r EXCEPT !.pc = "del_find",
                             !.log = <<[op |-> "delete", ok |-> TRUE,
                                        key |-> key]>>]]
          \/ /\ req' = [req EXCEPT ![p] = DeleteFromS3Failed(r)]
             /\ UNCHANGED objects
       /\ UNCHANGED <<files, history, started, codec_vars, auth_vars, call_vars>>

Next ==
    \E p \in Procs :
        \/ \E u \in Users, size \in Sizes : PostFile(p, u, size)
        \/ AddStatusFind(p)
        \/ AddStatusInsert(p)
        \/ S3GetClient(p)
        \/ S3CreateMultipartUpload(p)
        \/ S3UploadPart(p)
        \/ S3CompleteMultipartUpload(p)
        \/ S3AbortMultipartUpload(p)
        \/ S3Cancelled(p)
        \/ SetPath(p)
        \/ \E u \in Users, f \in FileIds, remove_failed, remove_deleted \in BOOLEAN :
              GetFileInfo(p, u, f, remove_failed, remove_deleted)
        \/ \E u \in Users, remove_failed, remove_deleted \in BOOLEAN :
              GetAllFilesInfo(p, u, remove_failed, remove_deleted)
        \/ \E u \in Users, f \in FileIds : DownloadFile(p, u, f)
        \/ DownloadStream(p)
        \/ DownloadGetObject(p)
        \/ DownloadNextChunk(p)
        \/ DownloadAbandoned(p)
        \/ \E u \in Users, f \in FileIds : DeleteFile(p, u, f)
        \/ DeleteGetClient(p)
        \/ DeleteS3Object(p)
        \/ Respond(p)

Spec == Init /\ [][Next]_vars

\* uploads of files at the size limit: the requests of post_file alone, with
\* the sizes MAX_FILE_SIZE and MAX_FILE_SIZE + 1
NextAtLimit ==
    \E p \in Procs :
        \/ \E u \in Users, size \in LimitSizes : PostFile(p, u, size)
        \/ AddStatusFind(p)
        \/ AddStatusInsert(p)
        \/ S3GetClient(p)
        \/ S3CreateMultipartUpload(p)
        \/ S3UploadPart(p)
        \/ S3CompleteMultipartUpload(p)
        \/ S3AbortMultipartUpload(p)
        \/ S3Cancelled(p)
        \/ SetPath(p)
        \/ Respond(p)

SpecAtLimit == Init /\ [][NextAtLimit]_vars

\* ------------------------------------------ process_file_upload (files.py)
\* a Python value handed to add_status: a member of the FileStatus enum or
\* a str
EnumArg(s) == [cls |-> "FileStatus", name |-> s]

StrArg(s) == [cls |-> "str", name |-> s]

\* status.value['name'], the first expression of add_status: a str has no
\* attribute value
StatusValueName(status) ==
    IF status.cls = "FileStatus" THEN <<status.name>> ELSE None

\* what process_file_upload hands to its first add_status
PROCESSING_ARG == StrArg("processing")

\* the sizes of the files the processor is given
SmallSizes == {0, CHUNK_SIZE_BYTES}

\* FileProcessor.create: __init__ makes the TemporaryDirectory, then
\* process_file_upload is entered with the processor
ProcessCreate(p, u, f) ==
    /\ Arrives(p)
    /\ req' = [req EXCEPT ![p] =
          [IdleReq EXCEPT !.kind = "process", !.pc = "proc_find",
                          !.user = u, !.fid = f, !.temp_dir = "open"]]
    /\ UNCHANGED <<files, history, objects>>

\* FilesModel.find_by_id(file.id, db), the first await
ProcessFind(p) ==
    LET r == req[p]
    IN /\ r.pc = "proc_find"
       /\ req' = [req EXCEPT ![p] =
             [r EXCEPT !.pc = "proc_status", !.ret = find_by_id(r.fid)]]
       /\ UNCHANGED <<files, history, objects, started, codec_vars, auth_vars, call_vars>>

\* file_obj.add_status("processing", db), before the try block: on None, and
\* on a str status, the attribute access raises and process_file_upload is
\* left; file.clean() is a plain statement after the try block
ProcessAddStatus(p) ==
    LET r == req[p]
    IN /\ r.pc = "proc_status"
       /\ req' = [req EXCEPT ![p] =
             IF r.ret = None \/ StatusValueName(PROCESSING_ARG) = None
             THEN Raised([r EXCEPT !.detail = ATTRIBUTE_ERROR])
             ELSE [r EXCEPT !.pc = "proc_try"]]
       /\ UNCHANGED <<files, history, objects, started, codec_vars, auth_vars, call_vars>>

\* the task is cancelled at the await of find_by_id
ProcessCancelled(p) ==
    LET r == req[p]
    IN /\ r.pc = "proc_find"
       /\ req' = [req EXCEPT ![p] = Raised([r EXCEPT !.detail = CANCELLED])]
       /\ UNCHANGED <<files, history, objects, started, codec_vars, auth_vars, call_vars>>

\* the processor run on the files that small uploads have recorded
NextProcessor ==
    \E p \in Procs :
        \/ \E u \in Users, size \in SmallSizes : PostFile(p, u, size)
        \/ AddStatusFind(p)
        \/ AddStatusInsert(p)
        \/ S3GetClient(p)
        \/ S3CreateMultipartUpload(p)
        \/ S3UploadPart(p)
        \/ S3CompleteMultipartUpload(p)
        \/ S3AbortMultipartUpload(p)
        \/ S3Cancelled(p)
        \/ SetPath(p)
        \/ \E u \in Users, f \in FileIds : ProcessCreate(p, u, f)
        \/ ProcessFind(p)
        \/ ProcessAddStatus(p)
        \/ ProcessCancelled(p)
        \/ Respond(p)

SpecProcessor == Init /\ [][NextProcessor]_vars

\* --------------------------------------------- archive codec (files.py)
\* Paths and archive entry names are strings whose prefixes matter: they
\* are sequences of characters.
SEP == "/"

DOT == <<".">>

DOTDOT == <<".", ".">>

\* str.split("/")
RECURSIVE Split(_)
Split(s) ==
    IF \A i \in 1..Len(s) : s[i] # SEP THEN <<s>>
    ELSE LET i == CHOOSE k \in 1..Len(s) :
                     s[k] = SEP /\ \A j \in 1..(k - 1) : s[j] # SEP
         IN <<SubSeq(s, 1, i - 1)>> \o Split(SubSeq(s, i + 1, Len(s)))

\* "/".join(parts)
RECURSIVE JoinSep(_)
JoinSep(parts) ==
    IF parts = <<>> THEN <<>>
    ELSE IF Len(parts) = 1 THEN parts[1]
    ELSE parts[1] \o <<SEP>> \o JoinSep(Tail(parts))

\* os.path.join of two strings: an absolute second argument replaces the
\* first
path_join(a, b) ==
    IF b # <<>> /\ b[1] = SEP THEN b
    ELSE IF a = <<>> \/ a[Len(a)] = SEP THEN a \o b
    ELSE a \o <<SEP>> \o b

\* the loop of posixpath.normpath over the components
RECURSIVE NormComps(_, _, _)
NormComps(comps, new_comps, initial_slashes) ==
    IF comps = <<>> THEN new_comps
    ELSE LET comp == Head(comps)
             rest == Tail(comps)
         IN IF comp = <<>> \/ comp = DOT
            THEN NormComps(rest, new_comps, initial_slashes)
            ELSE IF \/ comp # DOTDOT
                    \/ (~initial_slashes /\ new_comps = <<>>)
                    \/ (new_comps # <<>>
                           /\ new_comps[Len(new_comps)] = DOTDOT)
            THEN NormComps(rest, Append(new_comps, comp), initial_slashes)
            ELSE IF new_comps # <<>>
            THEN NormComps(rest, SubSeq(new_comps, 1, Len(new_comps) - 1),
                           initial_slashes)
            ELSE NormComps(rest, new_comps, initial_slashes)

\* posixpath.normpath (for paths that do not begin with two slashes)
normpath(path) ==
    IF path = <<>> THEN DOT
    ELSE LET initial_slashes == path[1] = SEP
             body == JoinSep(NormComps(Split(path), <<>>, initial_slashes))
             out == IF initial_slashes THEN <<SEP>> \o body ELSE body
         IN IF out = <<>> THEN DOT ELSE out

\* the working directory, the processor's temporary directory, the folder
\* an archive is extracted to, and str(self.id)
CWD == <<"/">>

TEMP_DIR == <<"/", "t">>

OUTPUT_FOLDER == <<"/", "o">>

FILE_ID == <<"1">>

ZIP_EXT == <<".", "z", "i", "p">>

\* os.path.realpath on a disk without symbolic links
realpath(path) == normpath(path_join(CWD, path))

\* FileProcessor.is_safe_path: a comparison of strings
is_safe_path(basedir, path) == IsPrefix(basedir, realpath(path))

\* the file names of uploads: a plain name, the name of the processor's own
\* archive, a name with a directory
Filenames == {<<"a">>, FILE_ID \o ZIP_EXT, <<"d", "/", "a">>}

Contents == {<<1>>, <<2, 3>>}

Keys == {<<"k">>, <<"q">>}

\* the entry names of archives made elsewhere
EntryNames == {<<"a">>, <<"d", "/", "a">>, <<"/", "e">>,
               <<".", ".", "/", "e">>,
               <<".", ".", "/", "o", "2", "/", "x">>}

MaxEntries == 2

\* the bytes of an entry of an archive made elsewhere, and the bytes of a
\* closed archive on disk
FOREIGN_DATA == <<9>>

ZIP_BYTES == <<80, 75>>

\* the directories of the disk
Dirs == {TEMP_DIR, OUTPUT_FOLDER}

Parent(path) ==
    LET parts == Split(path)
    IN JoinSep(SubSeq(parts, 1, Len(parts) - 1))

\* open(path, "wb") and the writes up to close
WriteFile(t, path, data) ==
    {f \in t : f.path # path} \cup {[path |-> path, data |-> data]}

ReadFile(t, path) == {f.data : f \in {g \in t : g.path = path}}

file_path(filename) == path_join(TEMP_DIR, filename)

zip_path == path_join(TEMP_DIR, FILE_ID \o ZIP_EXT)

\* ZipInfo.from_file: the arcname is normalised and loses leading slashes
RECURSIVE StripSep(_)
StripSep(s) ==
    IF s # <<>> /\ s[1] = SEP THEN StripSep(Tail(s)) ELSE s

ArcName(name) == StripSep(normpath(name))

\* ZipFile._extract_member: the components "", "." and ".." of the entry
\* name are dropped, the rest is joined to the folder
ExtractTarget(folder, name) ==
    normpath(path_join(folder,
        JoinSep(SelectSeq(Split(name),
                          LAMBDA c : c \notin {<<>>, DOT, DOTDOT}))))

RECURSIVE ExtractAll(_, _, _)
ExtractAll(t, folder, entries) ==
    IF entries = <<>> THEN t
    ELSE ExtractAll(WriteFile(t, ExtractTarget(folder, Head(entries).name),
                              Head(entries).data),
                    folder, Tail(entries))

Last(s) == s[Len(s)]

\* a FileProcessor is constructed for an upload
InitArchive ==
    /\ files = <<>>
    /\ history = <<>>
    /\ objects = {}
    /\ req = [p \in Procs |-> IdleReq]
    /\ started = 0
    /\ NoCalls
    /\ InitUsers(MAX_ROLE)
    /\ zip_file = NoArchive
    /\ tree = {}
    /\ codec \in {[NoProcessor EXCEPT !.step = "new", !.filename = n,
                                      !.data = d, !.key = k] :
                     n \in Filenames, d \in Contents, k \in Keys}

\* FileProcessor.write_to_file: an IOError (the directory of file_path does
\* not exist) is logged and the result is ignored by create
write_to_file ==
    /\ codec.step = "new"
    /\ tree' = IF Parent(file_path(codec.filename)) \in Dirs
               THEN WriteFile(tree, file_path(codec.filename), codec.data)
               ELSE tree
    /\ codec' = [codec EXCEPT !.step = "staged"]
    /\ UNCHANGED <<zip_file, lifecycle_vars, auth_vars, call_vars>>

\* FileProcessor._compress_and_encrypt: the archive is opened for writing at
\* zip_path (which truncates that file), then file_path is read into the
\* one entry; a missing file_path raises and leaves an empty archive
_compress_and_encrypt ==
    LET opened == WriteFile(tree, zip_path, <<>>)
        source == ReadFile(opened, file_path(codec.filename))
    IN /\ codec.step = "staged"
       /\ tree' = WriteFile(opened, zip_path, ZIP_BYTES)
       /\ IF source = {}
          THEN /\ zip_file' = [pwd |-> codec.key, entries |-> <<>>]
               /\ codec' = [codec EXCEPT !.step = "failed"]
          ELSE /\ zip_file' =
                     [pwd |-> codec.key,
                      entries |-> <<[name |->
                          ArcName(Last(Split(file_path(codec.filename)))),
                          data |-> CHOOSE d \in source : TRUE]>>]
               /\ codec' = [codec EXCEPT !.step = "archived",
                                         !.origin = "encrypted"]
       /\ UNCHANGED <<lifecycle_vars, auth_vars, call_vars>>

\* the zip_file argument of _decompress_and_decrypt is an archive made
\* elsewhere
ZipFileGiven(names, pwd) ==
    /\ codec.step = "new"
    /\ zip_file' = [pwd |-> pwd,
                    entries |-> [i \in DOMAIN names |->
                                    [name |-> names[i],
                                     data |-> FOREIGN_DATA]]]
    /\ codec' = [codec EXCEPT !.step = "archived", !.origin = "given"]
    /\ UNCHANGED <<tree, lifecycle_vars, auth_vars, call_vars>>

\* FileProcessor._decompress_and_decrypt(zip_file, output_folder): every
\* name of namelist is checked, then extractall; a wrong password raises
\* when the first entry is opened, before its file is created
_decompress_and_decrypt ==
    LET entries == zip_file.entries
    IN /\ codec.step = "archived"
       /\ IF \E i \in DOMAIN entries :
                ~is_safe_path(OUTPUT_FOLDER,
                              path_join(OUTPUT_FOLDER, entries[i].name))
          THEN /\ codec' = [codec EXCEPT !.step = "aborted"]
               /\ tree' = tree
          ELSE IF zip_file.pwd # codec.key
          THEN /\ codec' = [codec EXCEPT !.step = "failed"]
               /\ tree' = tree
          ELSE /\ codec' = [codec EXCEPT !.step = "extracted"]
               /\ tree' = ExtractAll(tree, OUTPUT_FOLDER, entries)
       /\ UNCHANGED <<zip_file, lifecycle_vars, auth_vars, call_vars>>

NextArchive ==
    \/ write_to_file
    \/ _compress_and_encrypt
    \/ \E n \in 1..MaxEntries, pwd \in Keys :
          \E names \in [1..n -> EntryNames] : ZipFileGiven(names, pwd)
    \/ _decompress_and_decrypt

SpecArchive == InitArchive /\ [][NextArchive]_vars

\* ------------------------------------ users and tokens (auth.py, users.py)
\* is_valid_uuid: the string parses as a UUID
is_valid_uuid(uuid_str) ==
    uuid_str \in {UuidSeq[i] : i \in DOMAIN UuidSeq} \cup {NO_USER_UUID}

\* create_token: exp is the second of now + life_time
create_token(token_type, life_time, subject) ==
    [jti |-> Cardinality(tokens) + 1, sub |-> subject, type |-> token_type,
     exp |-> clock + life_time]

\* create_access_token and create_confirmation_token both use
\* ACCESS_TOKEN_EXPIRE_MINUTES
TokenLifeTime(token_type) == ACCESS_TOKEN_EXPIRE_MINUTES

\* blacklist_token: the lifetime of the blocklist entry
BlocklistLifeTime(token_type) ==
    IF token_type = "confirmation_token" THEN CONFIRMATION_TOKEN_EXPIRE_MINUTES
    ELSE ACCESS_TOKEN_EXPIRE_MINUTES

\* jwt.decode: ExpiredSignatureError when exp is before the second of now
Expired(token) == token.exp < clock

\* jwt_redis_blocklist.get(jti) is not None: the answers the store can give.
\* An entry set with ex=n within second s is gone n seconds later, at some
\* moment of second s + n.
BlocklistHit(jti) ==
    IF \E b \in blocklist : b.jti = jti /\ clock < b.until THEN {TRUE}
    ELSE IF \E b \in blocklist : b.jti = jti /\ clock = b.until
    THEN {TRUE, FALSE}
    ELSE {FALSE}

\* validate_token: the payload, or None where it raises 401
validate_token_anytype(token, type, jti_in_redis) ==
    IF Expired(token) THEN None
    ELSE IF jti_in_redis THEN None
    ELSE IF token.sub = "" THEN None
    ELSE IF ~is_valid_uuid(token.sub) THEN None
    ELSE <<token>>

validate_token(token, type, jti_in_redis) ==
    IF Expired(token) THEN None
    ELSE IF jti_in_redis THEN None
    ELSE IF token.sub = "" THEN None
    ELSE IF ~is_valid_uuid(token.sub) THEN None
    ELSE IF token.type # type THEN None
    ELSE <<token>>

\* get_current_user: the users row of the subject, or None where it raises
\* 401
get_current_user_any(payload) ==
    <<[id |-> payload.sub, email |-> "", role |-> DEFAULT_ROLE,
       confirmed |-> FALSE]>>

get_current_user(payload) ==
    IF \E u \in users : u.id = payload.sub
    THEN <<CHOOSE u \in users : u.id = payload.sub>>
    ELSE None

\* the dependencies of an authenticated endpoint: the user, or None (401)
Authenticated(token, jti_in_redis) ==
    LET payload == validate_token(token, "access_token", jti_in_redis)
    IN IF payload = None THEN None ELSE get_current_user(payload[1])

\* RolesModel.find_by_authority: the rows with that authority
find_by_authority(authority) == {id \in RoleIds : roles[id] = authority}

\* user.role.authority
AuthorityOf(user) == roles[user.role]

\* RoleChecker.__call__: TRUE where it does not raise 403
RoleChecker_atleast(min_allowed_role, allow_self, user, id) ==
    LET is_self == user.id = id
        attends_min_role == AuthorityOf(user) >= min_allowed_role
    IN ~(~(allow_self /\ is_self) /\ ~attends_min_role)

RoleChecker(min_allowed_role, allow_self, user, id) ==
    LET is_self == user.id = id
        attends_min_role == AuthorityOf(user) > min_allowed_role
    IN ~(~(allow_self /\ is_self) /\ ~attends_min_role)

\* the RoleChecker of each endpoint of /users/{id}
RoleRules == [get_user_by_id |-> [min_allowed_role |-> 10, allow_self |-> TRUE],
              put_user |-> [min_allowed_role |-> 90, allow_self |-> FALSE],
              patch_user |-> [min_allowed_role |-> 90, allow_self |-> FALSE],
              delete_user_by_id |-> [min_allowed_role |-> 90, allow_self |-> TRUE]]

\* the answer to the request with number served + 1
Response(op, token, id, code) ==
    [n |-> served + 1, op |-> op, token |-> token, id |-> id, code |-> code]

\* a request is served
Served ==
    /\ served < MaxAuthRequests
    /\ served' = served + 1

InitAuth ==
    /\ files = <<>>
    /\ history = <<>>
    /\ objects = {}
    /\ req = [p \in Procs |-> IdleReq]
    /\ started = 0
    /\ NoCalls
    /\ zip_file = NoArchive
    /\ tree = {}
    /\ codec = NoProcessor
    /\ \E authority \in Authorities : InitUsers(authority)

\* a second passes
Tick ==
    /\ clock < MaxClock
    /\ clock' = clock + 1
    /\ UNCHANGED <<users, uuids, tokens, blocklist, signup, answer, served,
                   roles, lifecycle_vars, codec_vars, call_vars>>

\* a token signed with JWT_SECRET is made: by login_user for the id of a
\* user, by post_user for the confirmation link, or by create_token directly
CreateToken(token_type, subject) ==
    /\ Served
    /\ Cardinality(tokens) < MaxTokens
    /\ tokens' = tokens \cup
          {create_token(token_type, TokenLifeTime(token_type), subject)}
    /\ UNCHANGED <<users, uuids, blocklist, clock, signup, answer,
                   roles, lifecycle_vars, codec_vars, call_vars>>

\* post_user up to find_by_email: min_role.id raises when no role has the
\* authority MIN_ROLE; 409 for a registered email
PostUserFind(p, email) ==
    /\ Served
    /\ signup[p].pc \in {"idle", "done"}
    /\ uuids < Len(UuidSeq)
    /\ signup' = [signup EXCEPT ![p] =
          IF find_by_authority(MIN_ROLE) = {}
          THEN [pc |-> "done", email |-> email, resp |-> 500]
          ELSE IF \E u \in users : u.email = email
          THEN [pc |-> "done", email |-> email, resp |-> 409]
          ELSE [pc |-> "insert", email |-> email, resp |-> 0,
                role |-> CHOOSE id \in find_by_authority(MIN_ROLE) : TRUE]]
    /\ UNCHANGED <<users, uuids, tokens, blocklist, clock, answer,
                   roles, lifecycle_vars, codec_vars, call_vars>>

\* post_user from db.add to the response: the commit fails on the unique
\* index of users.email, and the IntegrityError is not handled
PostUserCommit(p) ==
    LET r == signup[p]
    IN /\ r.pc = "insert"
       /\ IF \E u \in users : u.email = r.email
          THEN /\ signup' = [signup EXCEPT ![p] =
                     [pc |-> "done", email |-> r.email, resp |-> 500]]
               /\ UNCHANGED <<users, uuids>>
          ELSE /\ users' = users \cup
                     {[id |-> UuidSeq[uuids + 1], email |-> r.email,
                       role |-> r.role, confirmed |-> FALSE]}
               /\ uuids' = uuids + 1
               /\ signup' = [signup EXCEPT ![p] =
                     [pc |-> "done", email |-> r.email, resp |-> 201]]
       /\ UNCHANGED <<tokens, blocklist, clock, answer, served,
                      roles, lifecycle_vars, codec_vars, call_vars>>

\* blacklist_token: set(jti, "blacklisted", ex=expires_on)
blacklist_token(payload) ==
    {b \in blocklist : b.jti # payload.jti} \cup
    {[jti |-> payload.jti,
      until |-> clock + BlocklistLifeTime(payload.type)]}

\* logout_user
LogoutUser(token) ==
    /\ Served
    /\ \E jti_in_redis \in BlocklistHit(token.jti) :
          LET user == Authenticated(token, jti_in_redis)
          IN IF user = None
             THEN /\ answer' = Response("logout_user", token, "", 401)
                  /\ UNCHANGED blocklist
             ELSE /\ answer' = Response("logout_user", token, "", 200)
                  /\ blocklist' = blacklist_token(token)
    /\ UNCHANGED <<users, uuids, tokens, clock, signup,
                   roles, lifecycle_vars, codec_vars, call_vars>>

\* get_user_by_token
GetUserByToken(token) ==
    /\ Served
    /\ \E jti_in_redis \in BlocklistHit(token.jti) :
          LET user == Authenticated(token, jti_in_redis)
          IN answer' = Response("get_user_by_token", token, "",
                              IF user = None THEN 401 ELSE 200)
    /\ UNCHANGED <<users, uuids, tokens, blocklist, clock, signup,
                   roles, lifecycle_vars, codec_vars, call_vars>>

\* delete_user_by_token
DeleteUserByToken(token) ==
    /\ Served
    /\ \E jti_in_redis \in BlocklistHit(token.jti) :
          LET user == Authenticated(token, jti_in_redis)
          IN IF user = None
             THEN /\ answer' = Response("delete_user_by_token", token, "", 401)
                  /\ UNCHANGED users
             ELSE /\ answer' = Response("delete_user_by_token", token, "", 204)
                  /\ users' = {u \in users : u.id # user[1].id}
    /\ UNCHANGED <<uuids, tokens, blocklist, clock, signup,
                   roles, lifecycle_vars, codec_vars, call_vars>>

\* get_user_by_id, put_user, patch_user and delete_user_by_id: the
\* RoleChecker, find_by_id_and_exception, then the change; email is the
\* email of the body of put_user and patch_user ("" where there is none)
UserById(op, token, id, email) ==
    /\ Served
    /\ \E jti_in_redis \in BlocklistHit(token.jti) :
          LET user == Authenticated(token, jti_in_redis)
              rule == RoleRules[op]
              code ==
                 IF user = None THEN 401
                 ELSE IF ~RoleChecker(rule.min_allowed_role, rule.allow_self,
                                      user[1], id)
                 THEN 403
                 ELSE IF ~\E u \in users : u.id = id THEN 404
                 ELSE IF op = "get_user_by_id" THEN 200
                 ELSE IF op = "delete_user_by_id" THEN 204
                 ELSE IF email # "" /\ \E u \in users :
                                          u.id # id /\ u.email = email
                 THEN 500
                 ELSE 202
          IN /\ answer' = Response(op, token, id, code)
             /\ users' =
                  IF code = 204 THEN {u \in users : u.id # id}
                  ELSE IF code = 202 /\ email # ""
                  THEN {IF u.id = id THEN [u EXCEPT !.email = email] ELSE u :
                           u \in users}
                  ELSE users
    /\ UNCHANGED <<uuids, tokens, blocklist, clock, signup,
                   roles, lifecycle_vars, codec_vars, call_vars>>

\* get_confirmation_email: the token must be a confirmation token of a
\* user; the user is confirmed and the token put on the blocklist
GetConfirmationEmail(token) ==
    /\ Served
    /\ \E jti_in_redis \in BlocklistHit(token.jti) :
          LET payload == validate_token(token, "confirmation_token",
                                        jti_in_redis)
              user == IF payload = None THEN None
                      ELSE get_current_user(payload[1])
          IN IF user = None
             THEN /\ answer' = Response("get_confirmation_email", token, "",
                                        401)
                  /\ UNCHANGED <<users, blocklist>>
             ELSE /\ answer' = Response("get_confirmation_email", token, "",
                                        202)
                  /\ users' = {IF u.id = user[1].id
                               THEN [u EXCEPT !.confirmed = TRUE] ELSE u :
                                  u \in users}
                  /\ blocklist' = blacklist_token(payload[1])
    /\ UNCHANGED <<uuids, tokens, clock, signup,
                   roles, lifecycle_vars, codec_vars, call_vars>>

\* post_role, which takes no token: 409 when a role has the authority of
\* the body, else the new row
PostRole(authority) ==
    /\ Served
    /\ roles[NEW_ROLE] = NoRole
    /\ roles' = IF find_by_authority(authority) # {} THEN roles
                ELSE [roles EXCEPT ![NEW_ROLE] = authority]
    /\ UNCHANGED <<users, uuids, tokens, blocklist, clock, signup, answer,
                   lifecycle_vars, codec_vars, call_vars>>

\* put_role, which takes no token: 404 for a row that does not exist; the
\* authority of the body is set on the row, and the commit fails on the
\* unique index of roles.authority when another row has it
PutRole(id, authority) ==
    /\ Served
    /\ roles' = IF roles[id] = NoRole THEN roles
                ELSE IF find_by_authority(authority) \ {id} # {} THEN roles
                ELSE [roles EXCEPT ![id] = authority]
    /\ UNCHANGED <<users, uuids, tokens, blocklist, clock, signup, answer,
                   lifecycle_vars, codec_vars, call_vars>>

NextAuth ==
    \/ Tick
    \/ \E token_type \in {"access_token", "confirmation_token"},
          subject \in Subjects : CreateToken(token_type, subject)
    \/ \E p \in Procs, email \in Emails : PostUserFind(p, email)
    \/ \E p \in Procs : PostUserCommit(p)
    \/ \E token \in tokens : LogoutUser(token)
    \/ \E token \in tokens : GetUserByToken(token)
    \/ \E token \in tokens : DeleteUserByToken(token)
    \/ \E token \in tokens : GetConfirmationEmail(token)
    \/ \E authority \in RoleAuthorities : PostRole(authority)
    \/ \E id \in RoleIds, authority \in RoleAuthorities : PutRole(id, authority)
    \/ \E op \in DOMAIN RoleRules, token \in tokens,
          id \in {UuidSeq[1], UuidSeq[2], NO_USER_UUID} :
          \/ op \in {"get_user_by_id", "delete_user_by_id"}
                /\ UserById(op, token, id, "")
          \/ op = "put_user"
                /\ \E email \in Emails : UserById(op, token, id, email)
          \/ op = "patch_user"
                /\ \E email \in Emails \cup {""} :
                      UserById(op, token, id, email)

SpecAuth == InitAuth /\ [][NextAuth]_vars

\* ------------------------------------------------------------ properties
Uploads(f) == {p \in Procs : req[p].kind = "upload" /\ req[p].fid = f}

\* the statuses recorded before the first deleted event
RECURSIVE BeforeDeleted(_)
BeforeDeleted(s) ==
    IF s = <<>> \/ Head(s) = DELETED THEN <<>>
    ELSE <<Head(s)>> \o BeforeDeleted(Tail(s))

Rows(h, s) == {i \in DOMAIN h : h[i].status = s}

C2_TerminalAbsorbing ==
    [][\A f \in DOMAIN history :
          LET h == history[f]
              g == history'[f]
          IN last_status(h) \in {<<"completed">>, <<FAILED>>, <<DELETED>>}
             => \/ g = h
                \/ /\ last_status(h) \in {<<"completed">>, <<FAILED>>}
                   /\ Len(g) = Len(h) + 1
                   /\ IsPrefix(h, g)
                   /\ g[Len(g)].status = DELETED]_vars

\* C3 as written: a files row always has a non-empty history that starts
\* with received.
C3_HistoryStartsReceived ==
    \A f \in DOMAIN files :
        /\ history[f] # <<>>
        /\ history[f][1].status = RECEIVED

\* C4: no step shortens a file's history or changes an event in it: the
\* history before the step is a prefix of the history after it.
C4_AppendOnly ==
    [][\A f \in DOMAIN history : IsPrefix(history[f], history'[f])]_vars

C4_Witness ==
    \E f \in DOMAIN history :
        /\ Len(history[f]) >= 4
        /\ history[f][Len(history[f])].status = DELETED

\* C5: an add_status call whose lookup is made when one event of its
\* (file, status) exists inserts nothing, returns that event and leaves the
\* whole history (timestamps and current status included) as it was.
C5_AddStatusIdempotent ==
    [][\A p \in Procs :
          LET r == req[p]
              h == history[r.fid]
          IN (r.pc \in FindPcs /\ req'[p] # r
                 /\ Cardinality(Rows(h, StatusAt(r))) = 1)
             => /\ history' = history
                /\ req'[p].pc \notin InsertPcs
                /\ req'[p].existing
                /\ \E i \in Rows(h, StatusAt(r)) : req'[p].ret = <<h[i]>>]_vars

C5_Witness ==
    \E p \in Procs :
        /\ req[p].pc = "done"
        /\ req[p].existing
        /\ req[p].ret = <<history[req[p].fid][Len(history[req[p].fid])]>>
        /\ Cardinality(Rows(history[req[p].fid], DELETED)) = 1

\* C6 as written: a file whose history holds uploaded (or completed) has a
\* path.
C6_UploadedHasPath ==
    \A f \in DOMAIN files :
        (Rows(history[f], UPLOADED) \cup Rows(history[f], "completed") # {})
        => files[f].path # None

\* C7: a path only changes from None, to the uri of the object that the
\* file's own upload has stored, in the last step of handle_file_upload;
\* a new files row has no path.
C7_PathWrittenOnce ==
    [][\A f \in DOMAIN files' :
          IF f \in DOMAIN files
          THEN files'[f].path # files[f].path
               => /\ files[f].path = None
                  /\ FileKey(files[f].user_id, f) \in objects
                  /\ files'[f].path =
                        S3Uri(S3_BUCKET_NAME, FileKey(files[f].user_id, f))
                  /\ \E p \in Uploads(f) :
                        /\ req[p].pc = "fin_path"
                        /\ ~req[p].s3_failed
                        /\ req'[p].pc = "done"
          ELSE files'[f].path = None]_vars

C7_Witness ==
    \E f \in DOMAIN files :
        /\ files[f].path # None
        /\ Rows(history[f], DELETED) # {}

\* the calls upload_to_s3 has made, while it runs and when it has returned
InUpload(p) == req[p].pc \in S3Pcs \cup {"fin_find"}

Failed(c) == c.op \in {"part", "complete"} /\ ~c.ok

\* C8: when upload_to_s3 has returned after a part or the completion
\* failed, an abort for that upload id follows the failed call; no
\* completion is ever called after an abort; and an initiated upload has
\* been completed or an abort has been issued for it.
C8_AbortAfterFailure ==
    \A p \in Procs :
        InUpload(p) =>
            LET log == req[p].log
            IN /\ \A i, j \in DOMAIN log :
                     (log[i].op = "abort" /\ i < j) => log[j].op # "complete"
               /\ req[p].pc = "fin_find" =>
                     /\ \A i \in DOMAIN log :
                           Failed(log[i]) =>
                              \E j \in DOMAIN log :
                                 /\ j > i
                                 /\ log[j].op = "abort"
                                 /\ log[j].upload_id = log[i].upload_id
                                 /\ log[j].upload_id # None
                     /\ (\E i \in DOMAIN log : log[i].op = "create" /\ log[i].ok)
                        => \E j \in DOMAIN log :
                              \/ log[j].op = "complete" /\ log[j].ok
                              \/ log[j].op = "abort"

C8_Witness ==
    \E p \in Procs :
        /\ req[p].pc = "fin_find"
        /\ \E i, j \in DOMAIN req[p].log :
              /\ Failed(req[p].log[i])
              /\ req[p].log[i].part = 3
              /\ j > i
              /\ req[p].log[j].op = "abort"

CeilDiv(a, b) == (a + b - 1) \div b

\* C9: the parts upload_to_s3 uploads are numbered 1, 2, ... in the order
\* of the calls; completion is called at most once, after all ceil(S/C)
\* parts of a source of S > 0 bytes, with the entries 1..ceil(S/C) in
\* ascending order, each with the ETag returned for that part.
C9_PartsThenComplete ==
    \A p \in Procs :
        InUpload(p) =>
            LET log == req[p].log
                parts == SelectSeq(log, LAMBDA c : c.op = "part")
                done == SelectSeq(log, LAMBDA c : c.op = "complete")
                n == CeilDiv(req[p].size, CHUNK_SIZE_BYTES)
            IN /\ \A i \in DOMAIN parts : parts[i].part = i
               /\ Len(parts) <= n
               /\ Len(done) <= 1
               /\ (Len(done) = 1 /\ req[p].size > 0) =>
                     /\ Len(parts) = n
                     /\ \A i \in DOMAIN parts : parts[i].ok
                     /\ Len(done[1].parts) = n
                     /\ \A i \in 1..n :
                           /\ done[1].parts[i].PartNumber = i
                           /\ done[1].parts[i].ETag = <<done[1].upload_id[1], i>>
                     /\ \A i \in DOMAIN log :
                           log[i].op = "part" =>
                              \E j \in DOMAIN log :
                                 j > i /\ log[j].op = "complete"
               /\ (req[p].pc = "fin_find" /\ ~req[p].s3_failed
                      /\ req[p].size > 0) => Len(done) = 1

C9_Witness ==
    \E p \in Procs :
        /\ req[p].pc = "fin_find"
        /\ req[p].size = 20
        /\ ~req[p].s3_failed
        /\ Len(req[p].log) = 5
        /\ req[p].log[5].op = "complete"
        /\ Len(req[p].log[5].parts) = 3

\* C10: after a failed step of the object-store upload the file never has
\* an uploaded event and its path stays None, and when handle_file_upload
\* returns, failed is the file's current status; a file with a failed
\* event has neither an uploaded event nor a path.
C10_FailedUploadRecordsFailed ==
    [][/\ \A p \in Procs :
            (req'[p].kind = "upload" /\ req'[p].s3_failed) =>
               LET f == req'[p].fid
               IN /\ Rows(history'[f], UPLOADED) = {}
                  /\ files'[f].path = None
                  /\ (req[p].pc # "done" /\ req'[p].pc = "done"
                         /\ req'[p].resp = 202)
                     => last_status(history'[f]) = <<FAILED>>
       /\ \A f \in DOMAIN files' :
            Rows(history'[f], FAILED) # {}
            => Rows(history'[f], UPLOADED) = {} /\ files'[f].path = None]_vars

C10_Witness ==
    \E p \in Procs :
        /\ req[p].kind = "upload"
        /\ req[p].pc = "done"
        /\ req[p].s3_failed
        /\ req[p].resp = 202
        /\ last_status(history[req[p].fid]) = <<FAILED>>
        /\ files[req[p].fid].path = None
\* C11 as written: when the request is cancelled after the multipart upload
\* was initiated and before it was completed, the next thing upload_to_s3
\* does is to abort that upload.
C11_CancelledUploadAborted ==
    [][\A p \in Procs :
          (req[p].pc \in S3Pcs /\ req[p].upload_id # None
              /\ req[p].pc # "s3_abort" /\ req'[p].detail = CANCELLED)
          => req'[p].pc = "s3_abort"]_vars
\* the request in slot p arrives in this step
Arrival(p, kind) == req[p].pc = "idle" /\ req'[p].kind = kind

\* the request in slot p takes this step
Steps(p) == req'[p] # req[p]

Owned(f, u) == f \in DOMAIN files /\ files[f].user_id = u

\* C12: a delete request of the owner that finds the file's current status
\* failed only runs add_status(DELETED): it never calls the object store,
\* what it appends is one deleted event, and when it answers 200 the
\* history holds a deleted event.
C12_FailedDeleteSkipsStore ==
    [][\A p \in Procs :
          /\ (Arrival(p, "delete") /\ Owned(req'[p].fid, req'[p].user)
                 /\ last_status(history[req'[p].fid]) = <<FAILED>>)
             => req'[p].pc = "delf_find"
          /\ (req[p].pc \in {"delf_find", "delf_insert"} /\ Steps(p))
             => LET f == req[p].fid
                IN /\ req'[p].pc \in {"delf_insert", "done"}
                   /\ objects' = objects
                   /\ req'[p].log = <<>>
                   /\ files' = files
                   /\ history'[f] # history[f]
                      => /\ Len(history'[f]) = Len(history[f]) + 1
                         /\ IsPrefix(history[f], history'[f])
                         /\ history'[f][Len(history'[f])].status = DELETED
                   /\ (req'[p].pc = "done" /\ req'[p].resp = 200)
                      => Rows(history'[f], DELETED) # {}]_vars

C12_Witness ==
    \E p \in Procs :
        /\ req[p].kind = "delete"
        /\ req[p].pc = "done"
        /\ req[p].resp = 200
        /\ ~req[p].existing
        /\ Statuses(history[req[p].fid]) = <<RECEIVED, UPLOADING, FAILED, DELETED>>
        /\ files[req[p].fid].path = None

\* C13: a deleted event of a file that has no failed event is appended by a
\* delete request whose delete_object call for the file's key has returned;
\* when that call raises, the request ends with 500 and files, histories
\* and objects are as they were, so that a later delete meets the state
\* this one met.
C13_DeletedAfterStoreDelete ==
    [][/\ \A f \in DOMAIN history :
            (Rows(history[f], FAILED) = {}
                /\ Rows(history'[f], DELETED) # Rows(history[f], DELETED))
            => \E p \in Procs :
                  /\ req[p].pc = "del_insert"
                  /\ req[p].fid = f
                  /\ Steps(p)
                  /\ req[p].log =
                        <<[op |-> "delete", ok |-> TRUE,
                           key |-> FileKey(files[f].user_id, f)]>>
       /\ \A p \in Procs :
            (req[p].pc = "del_object" /\ req'[p].s3_failed)
            => /\ req'[p].pc = "done"
               /\ req'[p].resp = 500
               /\ <<files, history, objects>>' = <<files, history, objects>>]_vars

C13_Witness ==
    \E p, q \in Procs :
        /\ req[p].kind = "delete" /\ req[p].pc = "done"
        /\ req[p].s3_failed /\ req[p].resp = 500
        /\ req[q].kind = "delete" /\ req[q].pc = "done"
        /\ req[q].resp = 200 /\ ~req[q].existing
        /\ req[q].fid = req[p].fid
        /\ Statuses(history[req[p].fid]) = <<RECEIVED, UPLOADING, UPLOADED, DELETED>>

\* C14 as written: a delete request whose delete_object call is made when
\* the bucket does not hold the file's object ends with 404 and leaves the
\* history as it was.
C14_MissingObjectIs404 ==
    [][\A p \in Procs :
          (req[p].pc = "del_object" /\ Steps(p)
              /\ extract_s3_key(req[p].path).key \notin objects)
          => /\ req'[p].pc = "done"
             /\ req'[p].resp = 404
             /\ history' = history]_vars

\* C15 as written: a download request of the owner for a file whose current
\* status is deleted or failed, and one for an id without a files row, is
\* answered 404 at once.
C15_DownloadRejectsDeletedOrFailed ==
    [][\A p \in Procs :
          Arrival(p, "download")
          => LET f == req'[p].fid
             IN (\/ f \notin DOMAIN files
                 \/ /\ Owned(f, req'[p].user)
                    /\ last_status(history[f]) \in {<<DELETED>>, <<FAILED>>})
                => req'[p].pc = "done" /\ req'[p].resp = 404]_vars

\* C16 as written: a download of the owner that finds no locator on the
\* record, or no object under the locator's key, is answered 404 with the
\* detail of the storage, not 200 and not the detail of a missing record.
C16_MissingObjectIsStorage404 ==
    [][\A p \in Procs :
          (Steps(p) /\ req[p].kind = "download"
              /\ \/ req[p].pc = "dl_stream" /\ req[p].path = None
                 \/ /\ req[p].pc = "dl_get"
                    /\ extract_s3_key(req[p].path).key \notin objects)
          => /\ req'[p].pc = "done"
             /\ req'[p].resp = 404
             /\ req'[p].detail = NOT_IN_S3]_vars

\* C17: a get, download or delete request for an id without a files row is
\* answered 404, and one for a file of another user 403, in its first step
\* and with files, histories and objects unchanged; only the owner is
\* answered 200, and every later step of such a request (an object-store
\* call, an add_status) is a step of the file's owner.
C17_OwnerChecked ==
    [][\A p \in Procs :
          /\ (Arrival(p, "get") \/ Arrival(p, "download") \/ Arrival(p, "delete"))
             => LET f == req'[p].fid
                    u == req'[p].user
                IN /\ f \notin DOMAIN files
                      => /\ req'[p].pc = "done" /\ req'[p].resp = 404
                         /\ <<files, history, objects>>'
                               = <<files, history, objects>>
                   /\ (f \in DOMAIN files /\ ~Owned(f, u))
                      => /\ req'[p].pc = "done" /\ req'[p].resp = 403
                         /\ <<files, history, objects>>'
                               = <<files, history, objects>>
                   /\ (req'[p].resp = 200 \/ req'[p].pc # "done")
                      => Owned(f, u)
          /\ (req[p].kind \in {"get", "download", "delete"}
                 /\ req[p].pc \notin {"idle", "done"} /\ Steps(p))
             => Owned(req[p].fid, req[p].user)]_vars

C17_Witness ==
    \E p \in Procs :
        /\ req[p].kind = "delete"
        /\ req[p].pc = "done"
        /\ req[p].resp = 403
        /\ files[req[p].fid].user_id # req[p].user
        /\ FileKey(files[req[p].fid].user_id, req[p].fid) \in objects
        /\ Rows(history[req[p].fid], DELETED) = {}

\* the files rows a listing of user u is to hold
Listed(u, flags) ==
    {f \in DOMAIN files :
        /\ files[f].user_id = u
        /\ last_status(history[f]) \notin
              {<<s>> : s \in StatusFilter(flags[1], flags[2])}}

\* C18 as written: get_all_files_info answers with the files rows of the
\* requesting user that the status flags do not exclude, and with no
\* other row.
C18_ListingIsOwnersFiles ==
    [][\A p \in Procs :
          Arrival(p, "list")
          => {req'[p].ret[i] : i \in DOMAIN req'[p].ret}
                = Listed(req'[p].user, req'[p].flags)]_vars

\* C19 as written: get_file_info answers 404 for a file of the requester
\* whose current status is failed or deleted, when no flag is given and
\* when the exclusion of that status is requested.
C19_FailedAndDeletedExcluded ==
    [][\A p \in Procs :
          (Arrival(p, "get") /\ Owned(req'[p].fid, req'[p].user))
          => LET last == last_status(history[req'[p].fid])
                 flags == req'[p].flags
             IN (/\ last \in {<<DELETED>>, <<FAILED>>}
                 /\ \/ flags = <<FALSE, FALSE>>
                    \/ last \in {<<s>> : s \in StatusFilter(flags[1], flags[2])})
                => req'[p].resp = 404]_vars

InFlight(f) ==
    {p \in Procs : /\ req[p].kind = "upload"
                   /\ req[p].fid = f
                   /\ req[p].pc \notin {"idle", "done"}}

\* C26: at most one request runs the upload pipeline of a file id; every
\* accepted post_file, duplicates of one submission included, works on the
\* files row it has just created, which no other request works on.
C26_OnePipelinePerFile ==
    /\ \A f \in DOMAIN files : Cardinality(InFlight(f)) <= 1
    /\ \A p, q \in Procs :
          (p # q /\ req[p].kind = "upload" /\ req[q].kind = "upload"
              /\ req[p].fid # 0 /\ req[q].fid # 0)
          => req[p].fid # req[q].fid
    /\ \A p \in Procs :
          (req[p].kind = "upload" /\ req[p].fid # 0)
          => /\ req[p].fid \in DOMAIN files
             /\ files[req[p].fid].user_id = req[p].user

C26_Witness ==
    \E p, q \in Procs :
        /\ p # q
        /\ req[p].kind = "upload" /\ req[q].kind = "upload"
        /\ req[p].user = req[q].user
        /\ req[p].size = 20 /\ req[q].size = 20
        /\ req[p].pc = "s3_loop" /\ req[q].pc = "s3_loop"
        /\ InFlight(req[p].fid) = {p}
        /\ InFlight(req[q].fid) = {q}
\* C25: a download request holds an open client only while its generator
\* is between get_client and its end; whenever the generator ends (the
\* body is exhausted, a call fails, the consumer abandons it) the client
\* it had opened is closed, and no finished request has an open client.
C25_DownloadClientClosed ==
    [][\A p \in Procs :
          /\ req[p].pc \in {"dl_get", "dl_yield"} => req[p].client = "open"
          /\ (Steps(p) /\ req[p].client = "open"
                 /\ req'[p].pc \notin {"dl_get", "dl_yield"})
             => req'[p].client = "closed"
          /\ req'[p].pc \in {"idle", "done"} => req'[p].client # "open"]_vars

C25_Witness ==
    \E p \in Procs :
        /\ req[p].kind = "download"
        /\ req[p].pc = "done"
        /\ req[p].detail = ABANDONED
        /\ req[p].client = "closed"
\* C22 as written: whenever process_file_upload has been left (by return,
\* by an exception, by cancellation) the processor's temporary directory
\* has been released.  Violated: the first add_status raises before the try
\* block, and clean() is not reached.
C22_ScratchReleasedOnExit ==
    \A p \in Procs :
        (req[p].kind = "process" /\ req[p].pc = "done")
            => req[p].temp_dir = "released"
\* path is folder itself or lies below it
Within(folder, path) ==
    path = folder \/ IsPrefix(folder \o <<SEP>>, path)

\* C23 as written: _decompress_and_decrypt writes no file outside
\* output_folder, and when the resolved path of some entry is not
\* output_folder or a descendant of it, the call is aborted and the disk is
\* unchanged.  Violated: an entry that resolves to a sibling directory
\* whose name begins with output_folder's name passes is_safe_path.
C23_UnsafeEntryAborts ==
    [][(codec.step = "archived" /\ codec'.step # "archived")
          => /\ \A f \in tree' \ tree : Within(OUTPUT_FOLDER, f.path)
             /\ (\E i \in DOMAIN zip_file.entries :
                    ~Within(OUTPUT_FOLDER,
                            realpath(path_join(OUTPUT_FOLDER,
                                               zip_file.entries[i].name))))
                => (codec'.step = "aborted" /\ tree' = tree)]_vars

\* C24 as written: the archive that _compress_and_encrypt made of a
\* non-empty file with a non-empty key is extracted by
\* _decompress_and_decrypt, with the same key, to the original bytes under
\* the original base filename.  Violated: a file named as the processor's
\* own archive is truncated when the archive is opened for writing.
C24_RoundTrip ==
    [][(codec.step = "archived" /\ codec.origin = "encrypted"
           /\ codec'.step # "archived")
          => /\ codec'.step = "extracted"
             /\ [path |-> path_join(OUTPUT_FOLDER,
                                    Last(Split(codec.filename))),
                 data |-> codec.data] \in tree']_vars
\* an authenticated endpoint answers a request
Asked == answer' # answer

\* C27 as written: once logout_user has succeeded with a token, every
\* request that presents the token to an authenticated endpoint is answered
\* 401.  Violated: the blocklist entry lives ACCESS_TOKEN_EXPIRE_MINUTES from the
\* logout, and in its last second the store may have dropped it while
\* jwt.decode still accepts the token's exp.
C27_LoggedOutTokenRejected ==
    [][(Asked /\ answer'.token.type = "access_token"
              /\ \E b \in blocklist : b.jti = answer'.token.jti)
          => answer'.code = 401]_vars

\* C28: a request to an authenticated endpoint whose token has a subject
\* that is not the id of a user (empty, not a UUID, the id of no user or of
\* a deleted user) is answered 401.
C28_UnknownSubjectRejected ==
    [][(Asked /\ ~\E u \in users : u.id = answer'.token.sub)
          => answer'.code = 401]_vars

C28_Witness ==
    /\ answer.code = 401
    /\ answer.op = "get_user_by_token"
    /\ answer.token.sub = UuidSeq[1]
    /\ answer.token.type = "access_token"
    /\ ~Expired(answer.token)
    /\ ~\E b \in blocklist : b.jti = answer.token.jti
    /\ ~\E u \in users : u.id = UuidSeq[1]

\* C29: an endpoint with a RoleChecker answers an authenticated caller 403
\* exactly when the caller's authority is not above min_allowed_role and
\* the request is not for the caller's own id with allow_self; so a caller
\* of the default role gets and deletes only their own record and is
\* answered 403 by every put_user and patch_user.
C29_RoleCheckerGrants ==
    [][(Asked /\ answer'.op \in DOMAIN RoleRules /\ answer'.code # 401)
          => LET caller == CHOOSE u \in users : u.id = answer'.token.sub
                 op == answer'.op
                 min == IF op = "get_user_by_id" THEN 10 ELSE 90
                 self == op \in {"get_user_by_id", "delete_user_by_id"}
                            /\ answer'.id = caller.id
             IN /\ \E u \in users : u.id = answer'.token.sub
                /\ (answer'.code # 403) <=> (AuthorityOf(caller) > min \/ self)
                /\ AuthorityOf(caller) = MIN_ROLE
                   => /\ op \in {"put_user", "patch_user"}
                         => answer'.code = 403
                      /\ op \in {"get_user_by_id", "delete_user_by_id"}
                         => (answer'.code = 403 <=> answer'.id # caller.id)]_vars

C29_Witness ==
    /\ answer.op = "put_user"
    /\ answer.code = 403
    /\ answer.id = answer.token.sub
    /\ \E u \in users : u.id = answer.id /\ AuthorityOf(u) = MIN_ROLE

\* C30 as written: no two users have the same email, and a signup that
\* ends while its email is registered is answered 409 and changes no user.
\* Violated: of two signups that both passed find_by_email, the second
\* commit fails on the unique index and the request is answered 500.
C30_DuplicateSignupIs409 ==
    [][/\ \A u1, u2 \in users' : u1.email = u2.email => u1 = u2
       /\ \A p \in Procs :
             (signup'[p] # signup[p] /\ signup'[p].pc = "done"
                 /\ \E u \in users : u.email = signup'[p].email)
             => (signup'[p].resp = 409 /\ users' = users)]_vars
\* C31 as written: whatever the interleaving of the add_status calls, a
\* file has at most one event of each status.  Violated: two calls that
\* both look the pair up before either commits both insert, and every
\* later lookup of the pair raises on the two rows.
C31_OneEventPerStatus ==
    \A f \in DOMAIN history, s \in FileStatus :
        Cardinality(Rows(history[f], s)) <= 1

\* ---------------------------------------------------- the pure functions
\* FilesModel.last_status and S3Handler.extract_s3_key, each applied to
\* inputs drawn from bounded sets.

\* the longest status_history and the timestamps of its events: two events
\* share a created_on when the database's now() has not advanced between
\* their inserts
MaxEvents == 3

MaxTime == 2

RECURSIVE SeqsUpTo(_, _)
SeqsUpTo(S, n) ==
    IF n = 0 THEN {<<>>}
    ELSE LET shorter == SeqsUpTo(S, n - 1)
         IN  shorter \cup {Append(q, x) : q \in {t \in shorter : Len(t) = n - 1},
                                          x \in S}

\* status_history in insertion order: created_on never decreases
Histories ==
    {h \in SeqsUpTo([status : {UPLOADING, UPLOADED, DELETED},
                     created_on : 1..MaxTime], MaxEvents) :
        \A i \in 1..Len(h) - 1 : h[i].created_on <= h[i + 1].created_on}

\* bucket names hold no "/"; a key is one to three segments between "/"
Buckets == {S3_BUCKET_NAME, "b2"}

MaxSegments == 3

ObjectKeys == SeqsUpTo({"u1", "1", FILENAME, ""}, MaxSegments) \ {<<>>}

\* the locators: f"s3://{bucket}/{key}", the bare key, "s3:/" with one
\* slash, and the scheme with a bucket and nothing after it
Locators ==
    {S3Uri(b, k) : b \in Buckets, k \in ObjectKeys}
        \cup ObjectKeys
        \cup {<<"s3:">> \o k : k \in {q \in ObjectKeys : q[1] # ""}}
        \cup {<<"s3:", "", b>> : b \in Buckets}

InitCalls ==
    /\ files = <<>>
    /\ history = <<>>
    /\ objects = {}
    /\ req = [p \in Procs |-> IdleReq]
    /\ started = 0
    /\ InitUsers(MAX_ROLE)
    /\ zip_file = NoArchive
    /\ tree = {}
    /\ codec = NoProcessor
    /\ result = NoResult
    /\ \/ \E h \in Histories :
              args = [fn |-> "last_status", h |-> h, uri |-> <<>>]
       \/ \E uri \in Locators :
              args = [fn |-> "extract_s3_key", h |-> <<>>, uri |-> uri]

CallLastStatus ==
    /\ args.fn = "last_status"
    /\ ~result.returned
    /\ result' = [returned |-> TRUE, value |-> last_status(args.h)]
    /\ UNCHANGED <<args, lifecycle_vars, codec_vars, auth_vars>>

CallExtractS3Key ==
    /\ args.fn = "extract_s3_key"
    /\ ~result.returned
    /\ result' = [returned |-> TRUE, value |-> extract_s3_key(args.uri)]
    /\ UNCHANGED <<args, lifecycle_vars, codec_vars, auth_vars>>

NextCalls == CallLastStatus \/ CallExtractS3Key

SpecCalls == InitCalls /\ [][NextCalls]_vars

\* the events of h with the greatest created_on
Latest(h) ==
    {i \in 1..Len(h) : \A j \in 1..Len(h) : h[j].created_on <= h[i].created_on}

LastInserted(h) == CHOOSE i \in Latest(h) : \A j \in Latest(h) : j <= i

\* C32 as written: last_status is None on an empty history and otherwise
\* the status of the event with the greatest created_on, the last inserted
\* of them when several events share it.  Violated: max() returns the
\* first of the maximal events, so of two events with one timestamp the
\* earlier insert is reported.
C32_LastStatusLatestLastInserted ==
    (args.fn = "last_status" /\ result.returned) =>
        result.value = IF args.h = <<>> THEN None
                       ELSE <<args.h[LastInserted(args.h)].status>>

\* the bucket and key a locator with the scheme was built from
C34_Case ==
    /\ args.fn = "extract_s3_key"
    /\ result.returned

\* C34: extract_s3_key(f"s3://{b}/{k}") is (b, k, last segment of k) for a
\* bucket without "/" and any key; a locator without the scheme has bucket
\* None, itself as key and its last segment as name.
C34_LocatorRoundTrip ==
    C34_Case =>
        /\ \A b \in Buckets, k \in ObjectKeys :
               args.uri = S3Uri(b, k) =>
                   result.value = [bucket |-> <<b>>, key |-> k,
                                   name |-> k[Len(k)]]
        /\ ~(Len(args.uri) >= 3 /\ args.uri[1] = "s3:" /\ args.uri[2] = "") =>
               result.value = [bucket |-> None, key |-> args.uri,
                               name |-> args.uri[Len(args.uri)]]

\* the locator upload_to_s3 returns for a File Record has been parsed
C34_UploadLocatorParsed ==
    /\ C34_Case
    /\ args.uri = S3Uri(S3_BUCKET_NAME, FileKey("u1", 1))
    /\ result.value.key = FileKey("u1", 1)


\* the chunk sequence of the download of p, for a record that has a
\* locator, has failed in this step
DownloadFailed(p) ==
    /\ Steps(p)
    /\ req[p].path # None
    /\ req[p].pc \in {"dl_stream", "dl_get", "dl_yield"}
    /\ req'[p].pc = "done"
    /\ req'[p].s3_failed

\* C33 as written: the chunk sequence of handle_file_download fails with
\* S3FileNotFoundError only when get_object finds no object under the key,
\* and with S3DownloadError in every other failure, the failure to create
\* the client included.  Violated: when get_client raises, the except
\* clause reads the unbound name client and UnboundLocalError escapes.
C33_DownloadFailsWithTwoTypes ==
    [][\A p \in Procs :
          DownloadFailed(p) =>
              /\ req'[p].detail \in {S3_FILE_NOT_FOUND_ERROR, S3_DOWNLOAD_ERROR}
              /\ req'[p].detail = S3_FILE_NOT_FOUND_ERROR =>
                    /\ req[p].pc = "dl_get"
                    /\ extract_s3_key(req[p].path).key \notin objects]_vars

\* the status s is recorded for file f in this step
Records(f, s) ==
    /\ Rows(history[f], s) = {}
    /\ Rows(history'[f], s) # {}

\* the locator of the upload of file f
OwnLocator(f) ==
    S3Uri(S3_BUCKET_NAME, <<files[f].user_id, ToString(f), FILENAME>>)

\* C35: whatever the interleaving of the uploads of different files, the
\* locator written into a File Record is the one the upload of that file
\* produced, under that file's own key, and uploaded or failed is recorded
\* for a file only by its own upload: failed when that upload failed,
\* uploaded when it returned its locator.
C35_OwnLocatorAndStatus ==
    [][\A f \in DOMAIN files :
          /\ files'[f].path # files[f].path =>
                \E p \in Uploads(f) :
                    /\ Steps(p)
                    /\ ~req[p].s3_failed
                    /\ files'[f].path = req[p].s3_key
                    /\ files'[f].path = OwnLocator(f)
          /\ Records(f, FAILED) =>
                \E p \in Uploads(f) :
                    Steps(p) /\ req[p].s3_failed /\ req[p].s3_key = None
          /\ Records(f, UPLOADED) =>
                \E p \in Uploads(f) :
                    /\ Steps(p)
                    /\ ~req[p].s3_failed
                    /\ req[p].s3_key = OwnLocator(f)]_vars

\* two uploads overlap: the later one has written its locator and the
\* earlier one, which failed, is about to record failed
C35_Witness ==
    \E p, q \in Procs :
        /\ req[p].kind = "upload" /\ req[q].kind = "upload"
        /\ req[q].fid < req[p].fid
        /\ req[q].pc = "fin_insert" /\ req[q].s3_failed
        /\ req[p].pc = "done"
        /\ files[req[p].fid].path = OwnLocator(req[p].fid)
        /\ files[req[q].fid].path = None

\* the object key of file f
OwnKey(f) == <<files[f].user_id, ToString(f), FILENAME>>

\* C37: no two File Records hold the same locator or object key, and an
\* object leaves the store only in a step of a delete request, which
\* removes the one key of the file the request was made for: the object of
\* any other file, of the same or of another user, stays.
C37_DeleteOnlyOwnObject ==
    [][/\ \A f, g \in DOMAIN files' :
             (f # g /\ files'[f].path # None) =>
                 /\ files'[f].path # files'[g].path
                 /\ extract_s3_key(files'[f].path).key = OwnKey(f)'
                 /\ OwnKey(f)' # OwnKey(g)'
       /\ objects \ objects' # {} =>
             \E p \in Procs :
                 /\ Steps(p)
                 /\ req[p].kind = "delete"
                 /\ Owned(req[p].fid, req[p].user)
                 /\ objects \ objects' = {OwnKey(req[p].fid)}
                 /\ req[p].path = files[req[p].fid].path]_vars

\* a delete request has removed the object of its file while the object of
\* another file of the same user is in the store
C37_Witness ==
    \E p \in Procs, g \in DOMAIN files :
        /\ req[p].kind = "delete"
        /\ req[p].pc = "del_find"
        /\ g # req[p].fid
        /\ files[g].user_id = files[req[p].fid].user_id
        /\ OwnKey(req[p].fid) \notin objects
        /\ OwnKey(g) \in objects
        /\ files[g].path = S3Uri(S3_BUCKET_NAME, OwnKey(g))

\* ------------------------------------------- uploads that run to their end
\* post_file against an object store that answers every call, with success
\* or with an error; the task of the request is not cancelled.
NextUpload ==
    \E p \in Procs :
        \/ \E size \in SmallSizes : PostFile(p, "u1", size)
        \/ AddStatusFind(p)
        \/ AddStatusInsert(p)
        \/ S3GetClient(p)
        \/ S3CreateMultipartUpload(p)
        \/ S3UploadPart(p)
        \/ S3CompleteMultipartUpload(p)
        \/ S3AbortMultipartUpload(p)
        \/ SetPath(p)
        \/ Respond(p)

\* the next step of the request in slot p: every await of post_file returns
\* or raises, and the event loop resumes the task
Proceeds(p) ==
    \/ AddStatusFind(p)
    \/ AddStatusInsert(p)
    \/ S3GetClient(p)
    \/ S3CreateMultipartUpload(p)
    \/ S3UploadPart(p)
    \/ S3CompleteMultipartUpload(p)
    \/ S3AbortMultipartUpload(p)
    \/ SetPath(p)

SpecUploadFair ==
    Init /\ [][NextUpload]_vars /\ \A p \in Procs : WF_vars(Proceeds(p))

\* handle_file_upload of file f runs in slot p and has recorded uploading
Uploading(p, f) ==
    /\ req[p].kind = "upload"
    /\ req[p].fid = f
    /\ req[p].pc \notin {"idle", "done"}
    /\ Rows(history[f], UPLOADING) # {}

\* one of uploaded and failed is recorded for f, and not the other
OneTerminal(f) ==
    (Rows(history[f], UPLOADED) = {}) # (Rows(history[f], FAILED) = {})

\* the request for f in slot p is over: a terminal status is recorded, or a
\* write to the database raised (500)
Ended(p, f) ==
    /\ req[p].kind = "upload"
    /\ req[p].fid = f
    /\ req[p].pc = "done"
    /\ OneTerminal(f) \/ req[p].resp = 500

\* C36: whichever calls of the object store fail (get_client, create, part,
\* complete, abort), a run of handle_file_upload that has recorded
\* uploading ends, and when it ends exactly one of uploaded and failed is
\* recorded for the file, unless a write to the database raised; no file
\* has both.
C36_UploadEndsTerminal ==
    /\ [](\A f \in DOMAIN history :
             Rows(history[f], UPLOADED) = {} \/ Rows(history[f], FAILED) = {})
    /\ \A p \in Procs, f \in 1..MaxRequests : Uploading(p, f) ~> Ended(p, f)

\* an upload that failed at the object store has ended with failed recorded
C36_Witness ==
    \E p \in Procs :
        /\ req[p].kind = "upload"
        /\ req[p].pc = "done"
        /\ req[p].resp = 202
        /\ req[p].s3_failed
        /\ Rows(history[req[p].fid], UPLOADING) # {}
        /\ Rows(history[req[p].fid], FAILED) # {}
        /\ Rows(history[req[p].fid], UPLOADED) = {}

\* the users who signed up through post_user: all but the seeded one
SignedUp == {u \in users : u.id # UuidSeq[1]}

\* C38 as written: as long as no request has presented a token (none has
\* been issued), RoleChecker(min_allowed_role=90) passes for no user who
\* signed up through post_user.  Violated: put_role takes no token and
\* sets the authority of the Default role, the role of every signed-up
\* user, above 90.
C38_NoPrivilegeEscalation ==
    (tokens = {}) =>
        \A u \in SignedUp :
            ~RoleChecker(RoleRules.put_user.min_allowed_role, FALSE, u, u.id)

\* C39 as written: a confirmation token that get_confirmation_email has
\* accepted and put on the blocklist is rejected by every later request
\* until it expires (the second in which the blocklist entry runs out set
\* aside).  Violated: the token lives ACCESS_TOKEN_EXPIRE_MINUTES, its
\* blocklist entry CONFIRMATION_TOKEN_EXPIRE_MINUTES, which is shorter.
C39_ConfirmationTokenSingleUse ==
    [][(Asked /\ answer'.token.type = "confirmation_token"
              /\ ~Expired(answer'.token)
              /\ \E b \in blocklist :
                    b.jti = answer'.token.jti /\ clock # b.until)
          => answer'.code = 401]_vars

\* the endpoints that authenticate with an access token
AccessEndpoints ==
    DOMAIN RoleRules
        \cup {"logout_user", "get_user_by_token", "delete_user_by_token"}

====
